---------------------------- MODULE Spec2Model ----------------------------
(***************************************************************************)
(* The offline cache agent of ayyappa_songs: two revisions of one service  *)
(* worker sharing one cache store.                                         *)
(*   "v5"  src/unnamed/part_000  bulk add-all install, cache-first fetch   *)
(*   "v7"  src/unnamed/part_001  per-resource install, network-first       *)
(*                               navigation                                *)
(* Every promise continuation of a handler is one action, so the handlers  *)
(* of both revisions and the cache store interleave at the await points.   *)
(* Spec is the agent under the requests of a page; SaveSpec is the agent's *)
(* lifecycle with a page that posts messages and saves a song for offline  *)
(* reading (static/js/app.js, saveOffline).                                *)
(***************************************************************************)
EXTENDS Integers, Sequences, FiniteSets, TLC

VARIABLES
    caches,         \* the cache store: <<[name, entries]>> in creation order
    sw,             \* lifecycle state of each revision's worker
    inst,           \* progress of each install handler
    addAll,         \* v5: outcome of cache.addAll(urlsToCache)
    cachePromises,  \* v7: outcome of each CACHE_URLS.map(async url => ...)
    act,            \* progress of each activate handler
    h,              \* the fetch handler of each revision (one in flight)
    w,              \* the fire-and-forget caches.open().then(put) of h
    log,            \* console.warn / console.error lines
    events,         \* number of page events (fetches, messages) dispatched so far
    msg,            \* the message a page posted, and the message handler on it
    page            \* the page's saveOffline (static/js/app.js)

vars == <<caches, sw, inst, addAll, cachePromises, act, h, w, log, events, msg, page>>

-----------------------------------------------------------------------------
(* Bounds *)

\* fetch events dispatched in one behaviour
MaxEvents == 2
\* manifest entries whose fetch may fail during one install
MaxInstallFail == 1

-----------------------------------------------------------------------------
(* Program constants *)

Revs == {"v5", "v7"}

\* part_000:2,4  `${CACHE_VERSION}-cache`  /  part_001:1
CACHE_NAME(r) == IF r = "v5" THEN "ayyappa-songs-v5-cache" ELSE "ayyappa-songs-v7"

\* part_000:3 OFFLINE_PAGE / part_001:2 OFFLINE_URL
OFFLINE_PAGE == "/offline/"

\* part_000:7-16
urlsToCache ==
    << "/", "/songs/", "/offline/", "/static/manifest.json",
       "/static/icons/icon-192.png", "/static/icons/icon-512.png" >>

\* part_001:4-11
CACHE_URLS ==
    << "/", "/offline/", "/static/manifest.json", "/static/css/tailwind.min.css",
       "/static/icons/icon-192.png", "/static/icons/icon-512.png" >>

Range(s) == {s[i] : i \in DOMAIN s}

Manifest(r) == IF r = "v5" THEN Range(urlsToCache) ELSE Range(CACHE_URLS)

-----------------------------------------------------------------------------
(* URLs.  An href is the sequence of its pieces: scheme, host labels, path. *)
(* String operations of the code (startsWith, new URL(..).origin) work on   *)
(* that sequence as they work on the characters of the string.              *)

\* self.location.origin
SelfOrigin == <<"https://", "ayyappa.example">>
\* a third-party host, and a third-party host whose name begins with ours
CdnOrigin == <<"https://", "cdn.tailwindcss.com">>
LookalikeOrigin == <<"https://", "ayyappa.example", ".evil.test">>

Href(origin, path) == origin \o <<path>>

\* a manifest path is resolved against the worker's own origin
Resolve(path) == Href(SelfOrigin, path)

\* new URL(request.url).origin: everything before the path
OriginOf(href) == SubSeq(href, 1, Len(href) - 1)

\* String.prototype.startsWith
StartsWith(s, p) == Len(s) >= Len(p) /\ SubSeq(s, 1, Len(p)) = p

-----------------------------------------------------------------------------
(* Requests and responses *)

Req(method, mode, href) == [method |-> method, mode |-> mode, url |-> href]

\* the requests a page of the site issues
Requests ==
    { Req("GET",  "navigate", Resolve("/")),
      Req("GET",  "navigate", Resolve("/songs/view/1/")),
      Req("GET",  "no-cors",  Resolve("/static/icons/icon-192.png")),
      Req("GET",  "no-cors",  Resolve("/static/js/app.js")),
      Req("GET",  "no-cors",  Resolve("/static/css/tailwind.min.css")),
      Req("GET",  "no-cors",  Href(CdnOrigin, "/tailwind.js")),
      Req("GET",  "no-cors",  Href(LookalikeOrigin, "/x.js")),
      Req("POST", "cors",     Resolve("/songs/delete/1/")) }

\* the value a promise resolves with when the code returns nothing
NoResponse == [body |-> <<>>, status |-> 0, type |-> "undefined"]

\* what fetch() resolves with: "ok" is a 200, "bad" an HTTP error status
NetResponse(href, out) ==
    [ body   |-> href,
      status |-> IF out = "ok" THEN 200 ELSE 404,
      type   |-> IF OriginOf(href) = SelfOrigin THEN "basic" ELSE "cors" ]

\* part_001:88  new Response('Network error', { status: 408 })
SyntheticResponse == [body |-> <<"Network error">>, status |-> 408, type |-> "default"]

-----------------------------------------------------------------------------
(* The cache store (CacheStorage) *)

Names(store) == {store[i].name : i \in DOMAIN store}

IndexOf(store, n) == CHOOSE i \in DOMAIN store : store[i].name = n

EntriesOf(store, n) == store[IndexOf(store, n)].entries

\* caches.open(name): creates the cache when it does not exist
Open(store, n) ==
    IF n \in Names(store) THEN store
    ELSE Append(store, [name |-> n, entries |-> << >>])

\* caches.delete(name)
Delete(store, n) ==
    LET F[i \in 0..Len(store)] ==
            IF i = 0 THEN << >>
            ELSE IF store[i].name = n THEN F[i-1] ELSE Append(F[i-1], store[i])
    IN F[Len(store)]

\* cache.put(request, response) on the cache named n
Put(store, n, key, resp) ==
    [ i \in DOMAIN store |->
        IF store[i].name = n
        THEN [ store[i] EXCEPT !.entries =
                 [ k \in DOMAIN store[i].entries \cup {key} |->
                     IF k = key THEN resp ELSE store[i].entries[k] ] ]
        ELSE store[i] ]

\* cache.match(request) on one cache: only GET requests match
CacheHas(store, n, req) ==
    /\ n \in Names(store)
    /\ req.method = "GET"
    /\ req.url \in DOMAIN EntriesOf(store, n)

\* mutant: only the oldest cache of the store is searched
CachesMatch_bug(store, req) ==
    IF store # << >> /\ CacheHas(store, store[1].name, req)
    THEN store[1].entries[req.url]
    ELSE NoResponse

\* caches.match(request): the first cache, in creation order, that has it
CachesMatch(store, req) ==
    LET hits == {i \in DOMAIN store : CacheHas(store, store[i].name, req)}
    IN IF hits = {} THEN NoResponse
       ELSE LET i == CHOOSE j \in hits : \A k \in hits : j <= k
            IN store[i].entries[req.url]

-----------------------------------------------------------------------------
(* Decisions of the handlers, one operator per condition of the code *)

\* part_000:2  CACHE_VERSION, the name without the '-cache' suffix
CACHE_VERSION(r) == IF r = "v5" THEN "ayyappa-songs-v5" ELSE "ayyappa-songs-v7"

\* mutant: the comparison made against CACHE_VERSION instead of CACHE_NAME
IsStale_bug(r, n) == n # CACHE_VERSION(r)

\* activate: if (cacheName !== CACHE_NAME)          part_000:39, part_001:39
IsStale(r, n) == n # CACHE_NAME(r)

\* What the promise given to event.waitUntil in install settles with.
\* part_000:27 ends the chain with .catch(err => console.error(..)), which
\* turns a rejection into a fulfilment; part_001:14-30 has no catch.
WaitUntilSettles(r, rejected) ==
    IF r = "v5" THEN "resolved"
    ELSE IF rejected THEN "rejected" ELSE "resolved"

\* mutant: the test of response.ok inverted
StoresOnInstall_bug(out) == out = "bad"

\* mutant: the catch block swallows the error without logging it
WarnsOnInstall_bug(out) == FALSE

\* install of v7, one manifest entry: try { fetch; if (response.ok) put }
\* catch { console.warn }                                   part_001:18-25
StoresOnInstall(out) == out = "ok"
WarnsOnInstall(out) == out = "err"

\* fetch: does the handler call event.respondWith for this request?
\* part_000:52  if (event.request.method !== 'GET') return;
\* part_001:55  if (url.origin !== location.origin) return;
Intercepts(r, req) ==
    IF r = "v5" THEN req.method = "GET"
    ELSE OriginOf(req.url) = SelfOrigin

\* mutant: v5 answers navigations the way v7 does
NetworkFirst_bug(r, req) == req.mode = "navigate"

\* part_001:59  if (request.mode === 'navigate') respondWith(fetch(request)...)
NetworkFirst(r, req) == r = "v7" /\ req.mode = "navigate"

\* mutant: the cached response is not returned, the handler goes on to the network
AfterMatch_bug(r, cached) == "fetch"

\* What the handler does with a cache lookup's result: "serve" it or "fetch".
\* part_000:57  if (cachedResponse) return cachedResponse;   part_001:72-74
AfterMatch(r, cached) == IF cached # NoResponse THEN "serve" ELSE "fetch"

\* mutant: v7 caches like v5 does, whatever the status, and v5 never does
ShouldStore_bug(r, req, resp) == r = "v7" /\ OriginOf(req.url) = SelfOrigin

\* Is the network response written to the cache?
\* part_000:63  if (event.request.url.startsWith(self.location.origin))
\* part_001:77  if (!response || response.status !== 200 ||
\*                  response.type !== 'basic') return response;
\* (the navigation branch of v7, part_001:60-65, never writes)
ShouldStore(r, req, resp) ==
    IF r = "v5" THEN StartsWith(req.url, SelfOrigin)
    ELSE /\ ~NetworkFirst(r, req)
         /\ resp.status = 200
         /\ resp.type = "basic"

\* mutant: the navigation branch answers like the sub-resource branch of v7
OnNetworkError_bug(r, req) == IF r = "v5" THEN "undefined" ELSE "synthetic"

\* What the .catch of the network fetch returns.
\* part_000:71-76  navigate: caches.match(OFFLINE_PAGE); else nothing
\* part_001:62-64  navigate: caches.match(OFFLINE_URL)
\* part_001:87-89  else: new Response('Network error', {status: 408})
OnNetworkError(r, req) ==
    IF req.mode = "navigate" /\ (r = "v5" \/ NetworkFirst(r, req)) THEN "fallback"
    ELSE IF r = "v5" THEN "undefined"
    ELSE "synthetic"

\* mutant: the write's promise is returned from the callback, so the promise
\* given to respondWith waits for the write and fails with it
AwaitsWrite_bug(r) == TRUE

\* Does the promise given to respondWith wait for the runtime cache write?
\* part_000:65-69, part_001:82-86: caches.open(..).then(..) is an expression
\* statement, its promise is dropped, and the callback returns the response.
AwaitsWrite(r) == FALSE

-----------------------------------------------------------------------------
(* Initial state *)

\* a generation left behind by an earlier deployment
StaleCache ==
    [ name    |-> "ayyappa-songs-v4",
      entries |-> [ k \in {Resolve("/"), Resolve(OFFLINE_PAGE)} |-> NetResponse(k, "ok") ] ]

InitialStores == { << >>, <<StaleCache>> }

IdleInstall == [pc |-> "idle", skipWaiting |-> FALSE, settled |-> "pending"]

IdleActivate == [pc |-> "idle", claim |-> FALSE, listed |-> {}, todo |-> {},
                 deleted |-> {}, opened |-> {}, final |-> {}]

IdleHandler ==
    [ pc |-> "idle", req |-> Req("GET", "navigate", Resolve("/")),
      responded |-> FALSE, resp |-> NoResponse, atDispatch |-> NoResponse,
      lookup |-> "none", found |-> NoResponse, net |-> "none", nets |-> 0,
      anyCache |-> FALSE, curCache |-> FALSE,
      offlineCached |-> FALSE, offlineCurrent |-> FALSE ]

IdleWrite == [pc |-> "none", req |-> Req("GET", "navigate", Resolve("/")),
              resp |-> NoResponse, orphan |-> FALSE]

\* event.data of a message event; type "undefined" stands for no data at all
Data(type, url) == [type |-> type, url |-> url]

IdleMessage == [pc |-> "idle", to |-> "v5", data |-> Data("undefined", ""),
                orphan |-> FALSE, since |-> {}]

IdlePage == [pc |-> "idle", url |-> "", orphan |-> FALSE, since |-> {}]

Init ==
    /\ caches \in InitialStores
    /\ sw = [r \in Revs |-> "parsed"]
    /\ inst = [r \in Revs |-> IdleInstall]
    /\ addAll = "none"
    /\ cachePromises = [u \in Range(CACHE_URLS) |-> "none"]
    /\ act = [r \in Revs |-> IdleActivate]
    /\ h = [r \in Revs |-> IdleHandler]
    /\ w = [r \in Revs |-> IdleWrite]
    /\ log = {}
    /\ events = 0
    /\ msg = IdleMessage
    /\ page = IdlePage

-----------------------------------------------------------------------------
(* Bookkeeping shared by every action that touches the cache store *)

\* an activate handler that has listed the caches notes each cache opened since
NoteOpened(a, before, n) ==
    [ r \in Revs |->
        IF a[r].pc = "deleting" /\ n \notin Names(before)
        THEN [a[r] EXCEPT !.opened = @ \cup {n}]
        ELSE a[r] ]

\* a Cache object obtained before its cache was deleted no longer reaches the store
Orphan(ws, n) ==
    [ r \in Revs |->
        IF ws[r].pc = "put" /\ CACHE_NAME(r) = n
        THEN [ws[r] EXCEPT !.orphan = TRUE]
        ELSE ws[r] ]

\* app.js:34  caches.open('ayyappa-offline-songs')
PAGE_CACHE == "ayyappa-offline-songs"

\* the same for the Cache object of the message handler and of the page
OrphanAdd(m, held, n) ==
    IF m.pc = "add" /\ held = n THEN [m EXCEPT !.orphan = TRUE] ELSE m

-----------------------------------------------------------------------------
(* install                                    part_000:19-30, part_001:13-32 *)

\* The synchronous part: caches.open is called, then self.skipWaiting().
\* The browser installs v7 after v5, never both at once.
InstallStart(r) ==
    /\ sw[r] = "parsed"
    /\ IF r = "v5" THEN sw["v7"] = "parsed"
       ELSE sw["v5"] \in {"parsed", "activated", "redundant"}
    /\ sw' = [sw EXCEPT ![r] = "installing"]
    /\ inst' = [inst EXCEPT ![r] = [pc |-> "open", skipWaiting |-> TRUE,
                                    settled |-> "pending"]]
    /\ UNCHANGED <<caches, addAll, cachePromises, act, h, w, log, events, msg, page>>

\* caches.open(CACHE_NAME) resolves
InstallOpen(r) ==
    /\ inst[r].pc = "open"
    /\ caches' = Open(caches, CACHE_NAME(r))
    /\ act' = NoteOpened(act, caches, CACHE_NAME(r))
    /\ inst' = [inst EXCEPT ![r].pc = "populate"]
    /\ addAll' = IF r = "v5" THEN "pending" ELSE addAll
    /\ cachePromises' = IF r = "v7"
                        THEN [u \in Range(CACHE_URLS) |-> "pending"]
                        ELSE cachePromises
    /\ UNCHANGED <<sw, h, w, log, events, msg, page>>

\* the manifest entries whose fetch the network may fail during an install
Failable == {OFFLINE_PAGE, "/static/icons/icon-192.png"}

FailSets(r) == {S \in SUBSET (Failable \cap Manifest(r)) : Cardinality(S) <= MaxInstallFail}

PutAll(store, n, paths) ==
    LET key(i) == Resolve(urlsToCache[i])
        F[i \in 0..Len(urlsToCache)] ==
            IF i = 0 THEN store
            ELSE IF urlsToCache[i] \in paths
                 THEN Put(F[i-1], n, key(i), NetResponse(key(i), "ok"))
                 ELSE F[i-1]
    IN F[Len(urlsToCache)]

\* v5: cache.addAll(urlsToCache) settles.  addAll fetches every entry and
\* stores all of them, or rejects and stores none, when a fetch fails or
\* returns a non-ok status.  The .catch logs, and waitUntil's promise settles.
InstallAddAll(failing) ==
    LET r == "v5"
        rejected == failing # {}
        settled == WaitUntilSettles(r, rejected)
    IN
    /\ inst[r].pc = "populate"
    /\ addAll = "pending"
    /\ addAll' = IF rejected THEN "rejected" ELSE "ok"
    /\ caches' = IF rejected THEN caches
                 ELSE PutAll(caches, CACHE_NAME(r), Manifest(r))
    /\ log' = IF rejected /\ settled = "resolved"
              THEN log \cup {<<r, "error", "Cache add failed">>}
              ELSE log
    /\ inst' = [inst EXCEPT ![r].pc = "done", ![r].settled = settled]
    /\ sw' = [sw EXCEPT ![r] = IF settled = "resolved" THEN "installed"
                                ELSE "redundant"]
    /\ UNCHANGED <<cachePromises, act, h, w, events, msg, page>>

\* the entries of CACHE_URLS before u
Before(u) == {CACHE_URLS[i] : i \in {j \in DOMAIN CACHE_URLS :
                                       \E k \in DOMAIN CACHE_URLS : j < k /\ CACHE_URLS[k] = u}}

\* v7: one of the async callbacks of CACHE_URLS.map runs to its end.  The
\* callbacks are started in the order of CACHE_URLS and write distinct keys,
\* so the cache they leave does not depend on the order they finish in; the
\* model lets them finish in the order they were started.
InstallFetch(u, out) ==
    LET r == "v7" IN
    /\ inst[r].pc = "populate"
    /\ cachePromises[u] = "pending"
    /\ \A x \in Before(u) : cachePromises[x] # "pending"
    /\ out # "ok" => u \in Failable
    /\ out # "ok" =>
         Cardinality({x \in Range(CACHE_URLS) : cachePromises[x] \in {"bad", "err"}})
             < MaxInstallFail
    /\ cachePromises' = [cachePromises EXCEPT ![u] = out]
    /\ caches' = IF StoresOnInstall(out)
                 THEN Put(caches, CACHE_NAME(r), Resolve(u),
                          NetResponse(Resolve(u), "ok"))
                 ELSE caches
    /\ log' = IF WarnsOnInstall(out)
              THEN log \cup {<<r, "warn", u>>}
              ELSE log
    /\ UNCHANGED <<sw, inst, addAll, act, h, w, events, msg, page>>

\* mutant: the await of Promise.all is missing, the callback returns at once
InstallAll_bug ==
    /\ inst["v7"].pc = "populate"
    /\ inst' = [inst EXCEPT !["v7"].pc = "done", !["v7"].settled = "resolved"]
    /\ sw' = [sw EXCEPT !["v7"] = "installed"]
    /\ UNCHANGED <<caches, addAll, cachePromises, act, h, w, log, events, msg, page>>

\* v7: await Promise.all(cachePromises) resumes, the promise given to
\* waitUntil fulfils
InstallAll ==
    LET r == "v7"
        settled == WaitUntilSettles(r, FALSE)
    IN
    /\ inst[r].pc = "populate"
    /\ \A u \in Range(CACHE_URLS) : cachePromises[u] \notin {"none", "pending"}
    /\ inst' = [inst EXCEPT ![r].pc = "done", ![r].settled = settled]
    /\ sw' = [sw EXCEPT ![r] = IF settled = "resolved" THEN "installed"
                                ELSE "redundant"]
    /\ UNCHANGED <<caches, addAll, cachePromises, act, h, w, log, events, msg, page>>

-----------------------------------------------------------------------------
(* activate                                   part_000:33-48, part_001:34-49 *)

\* The synchronous part: caches.keys() is called, then self.clients.claim().
\* The browser activates a worker that asked to skip waiting once its install
\* has settled and the worker it replaces has no event pending: every promise
\* given to respondWith has settled.  A promise the handler dropped, such as
\* the runtime cache write, does not keep the event pending.
ActivateStart(r) ==
    /\ sw[r] = "installed"
    /\ \A q \in Revs \ {r} : h[q].pc \in {"idle", "done", "passthrough"}
    /\ sw' = [sw EXCEPT ![r] = "activating"]
    /\ act' = [act EXCEPT ![r].pc = "keys", ![r].claim = TRUE]
    /\ UNCHANGED <<caches, inst, addAll, cachePromises, h, w, log, events, msg, page>>

\* caches.keys() resolves; cacheNames.map starts a delete per stale name
ActivateKeys(r) ==
    /\ act[r].pc = "keys"
    /\ act' = [act EXCEPT ![r].pc = "deleting",
                          ![r].listed = Names(caches),
                          ![r].todo = {n \in Names(caches) : IsStale(r, n)}]
    /\ UNCHANGED <<caches, sw, inst, addAll, cachePromises, h, w, log, events, msg, page>>

\* one caches.delete(cacheName) takes effect
ActivateDelete(r, n) ==
    /\ act[r].pc = "deleting"
    /\ n \in act[r].todo
    /\ caches' = Delete(caches, n)
    /\ act' = [act EXCEPT ![r].todo = @ \ {n}, ![r].deleted = @ \cup {n}]
    /\ w' = Orphan(w, n)
    /\ msg' = OrphanAdd(msg, CACHE_NAME(msg.to), n)
    /\ page' = OrphanAdd(page, PAGE_CACHE, n)
    /\ UNCHANGED <<sw, inst, addAll, cachePromises, h, log, events>>

\* mutant: Promise.all is not returned, waitUntil's promise fulfils at once
ActivateDone_bug(r) ==
    /\ act[r].pc = "deleting"
    /\ act' = [act EXCEPT ![r].pc = "done", ![r].final = Names(caches)]
    /\ sw' = [sw EXCEPT ![r] = "activated"]
    /\ UNCHANGED <<caches, inst, addAll, cachePromises, h, w, log, events, msg, page>>

\* Promise.all of the deletes fulfils: the awaited work is complete
ActivateDone(r) ==
    /\ act[r].pc = "deleting"
    /\ act[r].todo = {}
    /\ act' = [act EXCEPT ![r].pc = "done", ![r].final = Names(caches)]
    /\ sw' = [sw EXCEPT ![r] = "activated"]
    /\ UNCHANGED <<caches, inst, addAll, cachePromises, h, w, log, events, msg, page>>

-----------------------------------------------------------------------------
(* fetch                                      part_000:51-79, part_001:51-92 *)

\* The browser hands fetch events to the activated worker that no newer
\* worker has begun to replace.
Controls(r) ==
    /\ sw[r] = "activated"
    /\ r = "v5" => sw["v7"] \notin {"activating", "activated"}

Settled(r) == h[r].pc \in {"idle", "done", "passthrough"}

\* The synchronous part of the listener.  One handler and one runtime cache
\* write per revision are in flight at a time.
FetchEvent(r, req) ==
    /\ Controls(r)
    /\ Settled(r)
    /\ w[r].pc \notin {"open", "put"}
    /\ events < MaxEvents
    /\ events' = events + 1
    /\ h' = [h EXCEPT ![r] =
               LET new == [IdleHandler EXCEPT !.req = req,
                                              !.atDispatch = CachesMatch(caches, req)]
               IN IF ~Intercepts(r, req)
                  THEN [new EXCEPT !.pc = "passthrough"]
                  ELSE IF NetworkFirst(r, req)
                  THEN [new EXCEPT !.pc = "fetching", !.responded = TRUE, !.nets = 1]
                  ELSE [new EXCEPT !.pc = "matching", !.responded = TRUE]]
    /\ w' = [w EXCEPT ![r] = IdleWrite]
    /\ UNCHANGED <<caches, sw, inst, addAll, cachePromises, act, log, msg, page>>

\* the caches of the store that hold an entry for the request
Holders(store, req) == {n \in Names(store) : CacheHas(store, n, req)}

\* caches.match(event.request) resolves
MatchResolve(r) ==
    LET cached == CachesMatch(caches, h[r].req)
        seen(hr) == [hr EXCEPT !.lookup = IF cached # NoResponse THEN "hit" ELSE "miss",
                               !.found = cached,
                               !.anyCache = Holders(caches, h[r].req) # {},
                               !.curCache = CACHE_NAME(r) \in Holders(caches, h[r].req)]
    IN
    /\ h[r].pc = "matching"
    /\ h' = [h EXCEPT ![r] =
               IF AfterMatch(r, cached) = "serve"
               THEN [seen(@) EXCEPT !.pc = "done", !.resp = cached]
               ELSE [seen(@) EXCEPT !.pc = "fetching", !.nets = @ + 1]]
    /\ UNCHANGED <<caches, sw, inst, addAll, cachePromises, act, w, log, events, msg, page>>

\* fetch(event.request) settles: a response ("ok", "bad") or a rejection ("err")
FetchResolve(r, out) ==
    LET req == h[r].req
        resp == NetResponse(req.url, out)
        onErr == OnNetworkError(r, req)
    IN
    /\ h[r].pc = "fetching"
    /\ IF out # "err"
       THEN /\ h' = [h EXCEPT ![r].pc = IF ShouldStore(r, req, resp) /\ AwaitsWrite(r)
                                         THEN "writing" ELSE "done",
                              ![r].resp = resp, ![r].net = "ok"]
            /\ w' = IF ShouldStore(r, req, resp)
                    THEN [w EXCEPT ![r] = [pc |-> "open", req |-> req,
                                           resp |-> resp, orphan |-> FALSE]]
                    ELSE w
       ELSE /\ h' = [h EXCEPT ![r].net = "err",
                              ![r].pc = IF onErr = "fallback" THEN "fallback" ELSE "done",
                              ![r].resp = IF onErr = "synthetic" THEN SyntheticResponse
                                          ELSE NoResponse]
            /\ w' = w
    /\ UNCHANGED <<caches, sw, inst, addAll, cachePromises, act, log, events, msg, page>>

\* the string OFFLINE_PAGE given to caches.match stands for a GET of that URL
OfflineRequest == Req("GET", "no-cors", Resolve(OFFLINE_PAGE))

\* caches.match(OFFLINE_PAGE) resolves
FallbackResolve(r) ==
    /\ h[r].pc = "fallback"
    /\ h' = [h EXCEPT ![r].pc = "done",
                      ![r].resp = CachesMatch(caches, OfflineRequest),
                      ![r].offlineCached = Holders(caches, OfflineRequest) # {},
                      ![r].offlineCurrent = CACHE_NAME(r) \in Holders(caches, OfflineRequest)]
    /\ UNCHANGED <<caches, sw, inst, addAll, cachePromises, act, w, log, events, msg, page>>

\* the handler whose returned promise waited for the write settles with it
WriteSettles(hs, r, ok) ==
    IF hs[r].pc = "writing"
    THEN [hs EXCEPT ![r].pc = "done", ![r].resp = IF ok THEN @ ELSE NoResponse]
    ELSE hs

\* caches.open(CACHE_NAME) of the runtime write settles
WriteOpen(r, ok) ==
    /\ w[r].pc = "open"
    /\ IF ok
       THEN /\ caches' = Open(caches, CACHE_NAME(r))
            /\ act' = NoteOpened(act, caches, CACHE_NAME(r))
            /\ w' = [w EXCEPT ![r].pc = "put"]
            /\ h' = h
       ELSE /\ w' = [w EXCEPT ![r].pc = "failed"]
            /\ h' = WriteSettles(h, r, FALSE)
            /\ UNCHANGED <<caches, act>>
    /\ UNCHANGED <<sw, inst, addAll, cachePromises, log, events, msg, page>>

\* cache.put(event.request, responseClone) settles.  put rejects for a request
\* that is not a GET, and when the store refuses the write.
WritePut(r, ok) ==
    LET stored == ok /\ w[r].req.method = "GET" IN
    /\ w[r].pc = "put"
    /\ w' = [w EXCEPT ![r].pc = IF stored THEN "stored" ELSE "failed"]
    /\ caches' = IF stored /\ ~w[r].orphan
                 THEN Put(caches, CACHE_NAME(r), w[r].req.url, w[r].resp)
                 ELSE caches
    /\ h' = WriteSettles(h, r, stored)
    /\ UNCHANGED <<sw, inst, addAll, cachePromises, act, log, events, msg, page>>

-----------------------------------------------------------------------------
(* message                        part_000:82-90; part_001 has no listener *)
(* saveOffline                    static_backup/js/app.js:25-45            *)

\* the song page the page's 'save offline' button is on
SongUrl == "/songs/view/1/"

\* what a page may post to the agent besides SAVE_OFFLINE
OtherData == { Data("undefined", ""), Data("PING", ""), Data("CLEAR", SongUrl) }

\* does the revision register a 'message' listener?   part_000:82
HasMessageListener(r) == r = "v5"

\* part_000:83  if (event.data && event.data.type === 'SAVE_OFFLINE')
AcceptsMessage(data) == data.type # "undefined" /\ data.type = "SAVE_OFFLINE"

\* app.js:26-45  saveOffline(songId, title), its synchronous part: the message
\* is posted to navigator.serviceWorker.controller (which must exist, or the
\* call throws) and caches.open('ayyappa-offline-songs') is called.
SaveOffline(r) ==
    /\ Controls(r)
    /\ msg.pc = "idle" /\ page.pc = "idle"
    /\ events < MaxEvents
    /\ events' = events + 1
    /\ msg' = [IdleMessage EXCEPT !.pc = "posted", !.to = r,
                                  !.data = Data("SAVE_OFFLINE", SongUrl)]
    /\ page' = [IdlePage EXCEPT !.pc = "open", !.url = SongUrl]
    /\ UNCHANGED <<caches, sw, inst, addAll, cachePromises, act, h, w, log>>

\* a page posts some other message to its controller
PostMessage(r, data) ==
    /\ Controls(r)
    /\ msg.pc = "idle"
    /\ events < MaxEvents
    /\ events' = events + 1
    /\ msg' = [IdleMessage EXCEPT !.pc = "posted", !.to = r, !.data = data]
    /\ UNCHANGED <<caches, sw, inst, addAll, cachePromises, act, h, w, log, page>>

\* The message event is dispatched to the agent it was posted to: the listener
\* of part_000:82-89 runs to caches.open(CACHE_NAME), or to its end; an agent
\* without a listener does nothing.
MessageEvent ==
    /\ msg.pc = "posted"
    /\ msg' = [msg EXCEPT !.pc = IF HasMessageListener(msg.to) /\ AcceptsMessage(msg.data)
                                    THEN "open" ELSE "ignored"]
    /\ UNCHANGED <<caches, sw, inst, addAll, cachePromises, act, h, w, log, events, page>>

\* part_000:84  caches.open(CACHE_NAME) settles
MessageOpen(ok) ==
    /\ msg.pc = "open"
    /\ IF ok
       THEN /\ caches' = Open(caches, CACHE_NAME(msg.to))
            /\ act' = NoteOpened(act, caches, CACHE_NAME(msg.to))
            /\ msg' = [msg EXCEPT !.pc = "add"]
       ELSE /\ msg' = [msg EXCEPT !.pc = "failed"]
            /\ UNCHANGED <<caches, act>>
    /\ UNCHANGED <<sw, inst, addAll, cachePromises, h, w, log, events, page>>

\* cache.add(url) on the cache named n: fetch the URL and put the response;
\* add rejects, and stores nothing, when the fetch fails or the response is
\* not ok.  A Cache object whose cache was deleted no longer reaches the store.
Add(store, n, url, out, orphan) ==
    IF out = "ok" /\ ~orphan
    THEN Put(store, n, Resolve(url), NetResponse(Resolve(url), "ok"))
    ELSE store

\* the revisions whose activate event has been dispatched
Activations == {r \in Revs : act[r].pc # "idle"}

\* part_000:85-87  cache.add(event.data.url) settles
MessageAdd(out) ==
    /\ msg.pc = "add"
    /\ caches' = Add(caches, CACHE_NAME(msg.to), msg.data.url, out, msg.orphan)
    /\ msg' = [msg EXCEPT !.pc = IF out = "ok" THEN "stored" ELSE "failed",
                          !.since = Activations]
    /\ UNCHANGED <<sw, inst, addAll, cachePromises, act, h, w, log, events, page>>

\* app.js:34  caches.open('ayyappa-offline-songs') settles
PageOpen(ok) ==
    /\ page.pc = "open"
    /\ IF ok
       THEN /\ caches' = Open(caches, PAGE_CACHE)
            /\ act' = NoteOpened(act, caches, PAGE_CACHE)
            /\ page' = [page EXCEPT !.pc = "add"]
       ELSE /\ page' = [page EXCEPT !.pc = "failed"]
            /\ UNCHANGED <<caches, act>>
    /\ UNCHANGED <<sw, inst, addAll, cachePromises, h, w, log, events, msg>>

\* app.js:35-40  cache.add(url) settles: the 'saved' toast, or the error toast
PageAdd(out) ==
    /\ page.pc = "add"
    /\ caches' = Add(caches, PAGE_CACHE, page.url, out, page.orphan)
    /\ page' = [page EXCEPT !.pc = IF out = "ok" THEN "saved" ELSE "failed",
                            !.since = Activations]
    /\ UNCHANGED <<sw, inst, addAll, cachePromises, act, h, w, log, events, msg>>

-----------------------------------------------------------------------------

Next ==
    \/ \E r \in Revs : InstallStart(r)
    \/ \E r \in Revs : InstallOpen(r)
    \/ \E failing \in FailSets("v5") : InstallAddAll(failing)
    \/ \E u \in Range(CACHE_URLS), out \in {"ok", "bad", "err"} : InstallFetch(u, out)
    \/ InstallAll
    \/ \E r \in Revs : ActivateStart(r)
    \/ \E r \in Revs : ActivateKeys(r)
    \/ \E r \in Revs, n \in Names(caches) : ActivateDelete(r, n)
    \/ \E r \in Revs : ActivateDone(r)
    \/ \E r \in Revs, req \in Requests : FetchEvent(r, req)
    \/ \E r \in Revs : MatchResolve(r)
    \/ \E r \in Revs, out \in {"ok", "bad", "err"} : FetchResolve(r, out)
    \/ \E r \in Revs : FallbackResolve(r)
    \/ \E r \in Revs, ok \in BOOLEAN : WriteOpen(r, ok)
    \/ \E r \in Revs, ok \in BOOLEAN : WritePut(r, ok)

Spec == Init /\ [][Next]_vars

\* The lifecycle of the agent together with a page that posts messages to it
\* and saves a song; the page issues no request meanwhile.
SaveNext ==
    \/ \E r \in Revs : InstallStart(r)
    \/ \E r \in Revs : InstallOpen(r)
    \/ \E failing \in FailSets("v5") : InstallAddAll(failing)
    \/ \E u \in Range(CACHE_URLS), out \in {"ok", "bad", "err"} : InstallFetch(u, out)
    \/ InstallAll
    \/ \E r \in Revs : ActivateStart(r)
    \/ \E r \in Revs : ActivateKeys(r)
    \/ \E r \in Revs, n \in Names(caches) : ActivateDelete(r, n)
    \/ \E r \in Revs : ActivateDone(r)
    \/ \E r \in Revs : SaveOffline(r)
    \/ \E r \in Revs, data \in OtherData : PostMessage(r, data)
    \/ MessageEvent
    \/ \E ok \in BOOLEAN : MessageOpen(ok)
    \/ \E out \in {"ok", "bad", "err"} : MessageAdd(out)
    \/ \E ok \in BOOLEAN : PageOpen(ok)
    \/ \E out \in {"ok", "bad", "err"} : PageAdd(out)

SaveSpec == Init /\ [][SaveNext]_vars

-----------------------------------------------------------------------------
(* Properties *)

Get(href) == Req("GET", "no-cors", href)

SameOriginGet(req) == req.method = "GET" /\ OriginOf(req.url) = SelfOrigin

CE_C2 ==
    \A r \in Revs :
        (h[r].responded /\ SameOriginGet(h[r].req) /\ h[r].atDispatch # NoResponse) =>
            /\ h[r].nets = 0
            /\ h[r].pc = "done" => h[r].resp = h[r].atDispatch

\* C2 (amended): every intercepted request looks the cache up before anything
\* else, except a navigation in v7, which goes to the network without a
\* lookup; a lookup that finds an entry is answered with that entry and the
\* handler fetches nothing from the network.
T_C2 ==
    \A r \in Revs :
        /\ h[r].lookup = "hit" =>
              /\ h[r].pc = "done"
              /\ h[r].found # NoResponse
              /\ h[r].resp = h[r].found
              /\ h[r].nets = 0
        /\ (h[r].responded /\ ~(r = "v7" /\ h[r].req.mode = "navigate")) =>
              (h[r].pc = "matching" \/ h[r].lookup # "none")
        /\ (h[r].responded /\ r = "v7" /\ h[r].req.mode = "navigate") =>
              (h[r].lookup = "none" /\ h[r].nets = 1)

\* a same-origin GET was answered from the cache, no network fetch made
W_C2 ==
    \E r \in Revs :
        /\ h[r].pc = "done"
        /\ SameOriginGet(h[r].req)
        /\ h[r].lookup = "hit"
        /\ h[r].resp.status = 200
        /\ h[r].nets = 0

\* C3 (as claimed): a same-origin GET request that had no cache entry and
\* whose network fetch succeeded was fetched exactly once and, once nothing of
\* its handler is pending any more (and no cache write of it failed), has an
\* entry in the current cache.
CE_C3 ==
    \A r \in Revs :
        ( /\ Controls(r)
          /\ h[r].pc = "done" /\ h[r].responded
          /\ SameOriginGet(h[r].req)
          /\ h[r].atDispatch = NoResponse
          /\ h[r].net = "ok" /\ h[r].resp.status = 200
          /\ w[r].pc \in {"none", "stored"} ) =>
            /\ h[r].nets = 1
            /\ CacheHas(caches, CACHE_NAME(r), h[r].req)

\* C3 (amended): a lookup that misses is followed by exactly one network
\* fetch.  v5 hands every same-origin response, and v7 every same-origin
\* status-200 response to a request that is not a navigation, to a cache write
\* the handler does not wait for; v7 never writes a navigation's response or a
\* response of another status.  Once that write has succeeded the entry is in
\* the agent's own cache, and a lookup of the same request is served from it.
T_C3 ==
    \A r \in Revs :
        /\ h[r].lookup = "miss" => h[r].nets = 1
        /\ ( /\ h[r].pc = "done" /\ h[r].net = "ok" /\ SameOriginGet(h[r].req)
             /\ (r = "v5" \/ (h[r].req.mode # "navigate" /\ h[r].resp.status = 200)) ) =>
               /\ w[r].pc # "none"
               /\ w[r].req = h[r].req
               /\ w[r].resp = h[r].resp
        /\ ( /\ h[r].pc = "done" /\ h[r].net = "ok" /\ r = "v7"
             /\ (h[r].req.mode = "navigate" \/ h[r].resp.status # 200) ) =>
               w[r].pc = "none"
        /\ (w[r].pc = "stored" /\ Controls(r)) =>
               /\ CacheHas(caches, CACHE_NAME(r), w[r].req)
               /\ EntriesOf(caches, CACHE_NAME(r))[w[r].req.url] = w[r].resp
               /\ CachesMatch(caches, w[r].req) # NoResponse

\* a missed same-origin GET was fetched once and its response is now cached
W_C3 ==
    \E r \in Revs :
        /\ Controls(r)
        /\ h[r].pc = "done" /\ h[r].lookup = "miss" /\ h[r].nets = 1
        /\ SameOriginGet(h[r].req)
        /\ w[r].pc = "stored"
        /\ CacheHas(caches, CACHE_NAME(r), h[r].req)

CE_C5 ==
    \A r \in Revs :
        ( /\ addAll # "rejected"
          /\ SameOriginGet(h[r].req)
          /\ h[r].pc = "done" /\ h[r].responded
          /\ h[r].req.mode # "navigate"
          /\ h[r].net = "err" ) =>
            h[r].resp.status = 408

\* C6 (as claimed): when the promise install gave to waitUntil has resolved,
\* every manifest entry is in the current cache.  (Stated for the behaviours
\* in which v5's addAll did not reject, so that a violation does not rest on C7.)
CE_C6 ==
    \A r \in Revs :
        (addAll # "rejected" /\ sw[r] = "installed" /\ inst[r].settled = "resolved") =>
            \A u \in Manifest(r) : CacheHas(caches, CACHE_NAME(r), Get(Resolve(u)))

\* C6 (amended): when the promise install gave to waitUntil has resolved, v7
\* has in its cache every manifest entry whose fetch returned an ok response,
\* and v5 has every manifest entry if addAll fulfilled and none if it rejected.
T_C6 ==
    /\ (sw["v7"] = "installed" /\ inst["v7"].settled = "resolved") =>
          \A u \in Range(CACHE_URLS) :
              cachePromises[u] = "ok" =>
                  CacheHas(caches, CACHE_NAME("v7"), Get(Resolve(u)))
    /\ (sw["v5"] = "installed" /\ inst["v5"].settled = "resolved") =>
          /\ addAll = "ok" =>
                \A u \in Range(urlsToCache) :
                    CacheHas(caches, CACHE_NAME("v5"), Get(Resolve(u)))
          /\ addAll = "rejected" =>
                \A u \in Range(urlsToCache) :
                    ~CacheHas(caches, CACHE_NAME("v5"), Get(Resolve(u)))

\* v7 has installed with its whole manifest cached, after v5 did the same
W_C6 ==
    /\ sw["v7"] = "installed"
    /\ addAll = "ok"
    /\ \A u \in Range(CACHE_URLS) : CacheHas(caches, CACHE_NAME("v7"), Get(Resolve(u)))
    /\ \A u \in Range(urlsToCache) : CacheHas(caches, CACHE_NAME("v5"), Get(Resolve(u)))

\* C7: when addAll rejects in v5, the install is reported failed, no manifest
\* entry is cached under the new name and v5 deletes no cache afterwards.
CE_C7 ==
    addAll = "rejected" =>
        /\ inst["v5"].settled = "rejected"
        /\ sw["v5"] = "redundant"
        /\ \A u \in Range(urlsToCache) :
               ~CacheHas(caches, CACHE_NAME("v5"), Get(Resolve(u)))
        /\ act["v5"].deleted = {}

CE_C9 ==
    \A r \in Revs :
        (h[r].pc # "idle" /\ h[r].req.method # "GET") =>
            /\ ~h[r].responded
            /\ h[r].lookup = "none"
            /\ h[r].nets = 0
            /\ w[r].pc = "none"

\* C10: a request to another origin is not intercepted (no respondWith, no
\* cache lookup) and its response is written to no cache.
CE_C10 ==
    \A r \in Revs :
        (h[r].pc # "idle" /\ OriginOf(h[r].req.url) # SelfOrigin) =>
            /\ ~h[r].responded
            /\ h[r].lookup = "none"
            /\ \A n \in Names(caches) : ~CacheHas(caches, n, h[r].req)

\* C12: a response the fetch handler has written to the cache is a 'basic'
\* response with status 200.  (Stated for same-origin GET requests and the
\* behaviours in which v5's addAll did not reject, so that a violation rests
\* neither on C7 nor on C10.)
CE_C12 ==
    \A r \in Revs :
        ( /\ addAll # "rejected"
          /\ SameOriginGet(w[r].req)
          /\ w[r].pc = "stored" /\ ~w[r].orphan ) =>
            /\ w[r].resp.status = 200
            /\ w[r].resp.type = "basic"

\* C13: when the open or the put of the runtime cache write has failed, the
\* handler has answered (or answers) the request with the very network
\* response it handed to the write, and that response is a response.
T_C13 ==
    \A r \in Revs :
        w[r].pc = "failed" =>
            /\ h[r].pc = "done"
            /\ h[r].responded
            /\ h[r].net = "ok"
            /\ h[r].req = w[r].req
            /\ h[r].resp = w[r].resp
            /\ h[r].resp = NetResponse(h[r].req.url, "ok")
                  \/ h[r].resp = NetResponse(h[r].req.url, "bad")

\* both agents have answered a same-origin GET with the network's 200
\* response although the cache write for it failed
W_C13 ==
    \A r \in Revs :
        /\ w[r].pc = "failed"
        /\ SameOriginGet(h[r].req)
        /\ h[r].pc = "done"
        /\ h[r].resp.status = 200

\* C14 (as claimed): when clients.claim() is issued, no cache with a name
\* other than the current one is in the store.
CE_C14 ==
    \A r \in Revs :
        (act[r].claim /\ act[r].pc = "keys") =>
            Names(caches) \subseteq {CACHE_NAME(r)}

\* C14 (amended): clients.claim() is issued in the synchronous part of the
\* activate listener, before the caches are listed; the agent is handed no
\* fetch event before every cache it listed under another name is deleted.
T_C14 ==
    \A r \in Revs :
        /\ act[r].pc # "idle" => act[r].claim
        /\ act[r].pc = "done" => act[r].todo = {}
        /\ h[r].pc # "idle" =>
              /\ act[r].pc = "done"
              /\ act[r].deleted = {n \in act[r].listed : n # CACHE_NAME(r)}

\* the claim has been issued, a listed stale cache is not deleted yet
W_C14 ==
    \E r \in Revs :
        /\ act[r].claim
        /\ act[r].pc = "deleting"
        /\ act[r].todo # {}
        /\ act[r].todo \subseteq Names(caches)

\* C15 (as claimed): while skipWaiting() has been issued, the population of
\* the cache from the manifest has finished.
CE_C15 ==
    \A r \in Revs :
        inst[r].skipWaiting =>
            /\ inst[r].pc = "done"
            /\ r = "v5" => addAll \in {"ok", "rejected"}
            /\ r = "v7" => \A u \in Range(CACHE_URLS) :
                               cachePromises[u] \notin {"none", "pending"}

\* C15 (amended): skipWaiting() is issued in the synchronous part of the
\* install listener, before any manifest entry is fetched; the install
\* completes, and the agent activates, only when addAll (v5) or every
\* per-entry callback (v7) has settled.
T_C15 ==
    \A r \in Revs :
        /\ inst[r].pc # "idle" => inst[r].skipWaiting
        /\ sw[r] \in {"installed", "activating", "activated"} => inst[r].pc = "done"
        /\ (r = "v5" /\ inst[r].pc = "done") => addAll \in {"ok", "rejected"}
        /\ (r = "v7" /\ inst[r].pc = "done") =>
              \A u \in Range(CACHE_URLS) : cachePromises[u] \notin {"none", "pending"}

\* skipWaiting() has been issued and v7 still fetches its manifest
W_C15 ==
    /\ inst["v7"].skipWaiting
    /\ sw["v7"] = "installing"
    /\ cachePromises["/"] = "ok"
    /\ cachePromises["/static/icons/icon-512.png"] = "pending"

\* C16 (as claimed): a network fetch of the handler was started after the
\* cache lookup for the request had missed, and they are not in flight together.
CE_C16 ==
    \A r \in Revs :
        h[r].nets > 0 => (h[r].lookup = "miss" /\ h[r].pc # "matching")

\* C16 (amended): a handler fetches from the network at most once, and never
\* while its cache lookup is in flight; the fetch follows a lookup that
\* missed, except for a navigation in v7, which is fetched with no lookup.
T_C16 ==
    \A r \in Revs :
        /\ h[r].nets <= 1
        /\ h[r].pc = "matching" => (h[r].nets = 0 /\ h[r].net = "none")
        /\ h[r].nets > 0 =>
              IF r = "v7" /\ h[r].req.mode = "navigate"
              THEN h[r].lookup = "none"
              ELSE h[r].lookup = "miss" /\ ~h[r].anyCache
        /\ h[r].pc = "fetching" => h[r].nets = 1

\* v5 fetches a navigation after its lookup missed, v7 another with no lookup
W_C16 ==
    /\ h["v5"].req.mode = "navigate" /\ h["v5"].lookup = "miss" /\ h["v5"].nets = 1
    /\ h["v7"].req.mode = "navigate" /\ h["v7"].lookup = "none" /\ h["v7"].pc = "fetching"

\* C17 (as claimed): a response served from the cache store was in the
\* current cache when it was read.  (Stated for the behaviours in which v5's
\* addAll did not reject and no cache was re-created during an activate, so
\* that a violation rests neither on C7 nor on C19.)
CE_C17 ==
    \A r \in Revs :
        ( /\ addAll # "rejected"
          /\ \A q \in Revs : act[q].opened = {}
          /\ h[r].pc = "done" ) =>
            /\ h[r].lookup = "hit" => h[r].curCache
            /\ (h[r].net = "err" /\ h[r].resp.status = 200) => h[r].offlineCurrent

\* C17 (amended): caches.match reads the whole store: a lookup hits exactly
\* when some cache of the store, whatever its name, holds an entry for the
\* request, and the offline fallback is served exactly when some cache holds
\* the Offline Fallback Page; an entry of the current cache is always found.
T_C17 ==
    \A r \in Revs :
        /\ h[r].lookup # "none" => (h[r].lookup = "hit" <=> h[r].anyCache)
        /\ (h[r].pc = "done" /\ h[r].net = "err" /\ OnNetworkError(r, h[r].req) = "fallback") =>
              (h[r].resp # NoResponse <=> h[r].offlineCached)
        /\ h[r].curCache => h[r].lookup = "hit"
        /\ h[r].offlineCurrent => h[r].resp.body = Resolve(OFFLINE_PAGE)
        /\ (h[r].pc = "done" /\ h[r].lookup = "hit") => h[r].resp = h[r].found

\* v5 has served an entry that only v7's cache held
W_C17 ==
    /\ h["v5"].pc = "done"
    /\ h["v5"].lookup = "hit"
    /\ ~h["v5"].curCache
    /\ h["v5"].resp.status = 200
    /\ addAll = "ok"

\* C18: the promise given to respondWith resolves with a response.  (Stated
\* for navigations and the behaviours in which v5's addAll did not reject, so
\* that a violation rests neither on C5 nor on C7.)
CE_C18 ==
    \A r \in Revs :
        ( /\ addAll # "rejected"
          /\ h[r].pc = "done" /\ h[r].responded
          /\ h[r].req.mode = "navigate" ) =>
            h[r].resp # NoResponse

\* C19: once v7's activate has completed with only the current cache in the
\* store, no cache with another name is in the store again.
CE_C19 ==
    (act["v7"].pc = "done" /\ act["v7"].final = {CACHE_NAME("v7")}) =>
        Names(caches) = {CACHE_NAME("v7")}

\* C11: an agent that has received a message {type: 'SAVE_OFFLINE', url} has
\* begun to fetch and store the URL (it opened its cache for cache.add, and
\* when the add has succeeded the URL is in that cache unless the cache was
\* deleted since); an agent that has received any other message, or one
\* without data, has done nothing with it.
CE_C11 ==
    msg.pc \notin {"idle", "posted"} =>
        IF msg.data.type = "SAVE_OFFLINE"
        THEN /\ msg.pc \in {"open", "add", "stored", "failed"}
             /\ (msg.pc = "stored" /\ ~msg.orphan /\ Activations = msg.since) =>
                    CacheHas(caches, CACHE_NAME(msg.to), Get(Resolve(msg.data.url)))
        ELSE msg.pc = "ignored"

\* C20: a song page that saveOffline has stored, in the page's own cache and
\* through SAVE_OFFLINE in the agent's cache, is still found in the cache
\* store when an activate event dispatched after both stores has completed.
CE_C20 ==
    ( /\ page.pc = "saved" /\ ~page.orphan
      /\ msg.pc = "stored" /\ ~msg.orphan
      /\ \E r \in Revs : /\ act[r].pc = "done"
                         /\ r \notin page.since \cup msg.since ) =>
        CachesMatch(caches, Get(Resolve(page.url))) # NoResponse

=============================================================================
